---- MODULE Spec2Model ----
(***************************************************************************)
(* Billing and ledger consistency engine of CableBillingBackend:           *)
(* BillingService.createBill / createPayment / createDueSettlement and     *)
(* BoxService.createBoxActivation, each run inside prisma.$transaction     *)
(* against the relational store (customers, bills, payments,               *)
(* due_settlements, box_activations, transactions).                        *)
(*                                                                         *)
(* Amounts are whole currency units, dates are month indices               *)
(* (2023-01 = 1, 2023-04 = 4), the clock `now` counts milliseconds.        *)
(* A row id (cuid) is the row's position in its table.                     *)
(***************************************************************************)
EXTENDS Integers, Sequences, FiniteSets, TLC

VARIABLES customers, bills, payments, dueSettlements, boxActivations,
          transactions, now, lastOp, inFlight

vars == <<customers, bills, payments, dueSettlements, boxActivations,
          transactions, now, lastOp, inFlight>>

----------------------------------------------------------------------------
(* Bounds of the exploration *)

\* at most this many ledger entries (committed operations) in one run
MaxTransactions == 3

\* the clock runs from 0 to MaxTime
MaxTime == 2

----------------------------------------------------------------------------
(* Values *)

\* SQL NULL / JavaScript null and undefined, for nullable columns
NULL == -1

\* rows of the customers table that exist
Customers == {"c1", "c2"}

\* customer ids a caller may send; "cX" resolves to no customer
CustomerIds == Customers \cup {"cX"}

\* plan fixtures of the pricing tests (price, discountedPrice, months)
Plans ==
  [plan1 |-> [price |-> 100, discountedPrice |-> NULL, months |-> 1],
   plan2 |-> [price |-> 200, discountedPrice |-> 150, months |-> 3],
   plan3 |-> [price |-> 100, discountedPrice |-> 80, months |-> 2]]

\* plan selections a caller sends with createBill
PlanSelections == {{"plan1", "plan2"}, {"plan3"}}

\* amounts a caller sends with createBill (Joi: positive)
BillAmounts == {160}

\* bill dates a caller sends, as month indices
BillDates == {1}

\* due dates a caller sends (Joi: not before the bill date)
DueDates == {4}

\* amounts a caller sends with createPayment / createDueSettlement
PayAmounts == {60, 100, 160}

ActionTypes == {"ACTIVATED", "SUSPENDED", "DEACTIVATED", "REACTIVATED"}

\* ordinal of the write inside one operation that the store rejects
\* (connection loss, constraint): 0 = no write fails
Faults == 0..4

----------------------------------------------------------------------------
(* The relational store *)

Db ==
  [customers |-> customers, bills |-> bills, payments |-> payments,
   dueSettlements |-> dueSettlements, boxActivations |-> boxActivations,
   transactions |-> transactions]

\* a unit of work in progress: the rows it sees, the error raised so far,
\* the number of writes done
Begin(db) == [db |-> db, err |-> "none", writes |-> 0]

Ok(ctx) == ctx.err = "none"

Fail(ctx, e) == IF Ok(ctx) THEN [ctx EXCEPT !.err = e] ELSE ctx

Wrote(ctx, db) == [ctx EXCEPT !.db = db, !.writes = ctx.writes + 1]

RECURSIVE SumSeq(_, _)
\* Array.prototype.reduce((sum, x) => sum + x[field], 0)
SumSeq(s, field) ==
  IF s = <<>> THEN 0 ELSE s[1][field] + SumSeq(Tail(s), field)

\* findMany({ where: { billId } })
WhereBillId(rows, billId) == SelectSeq(rows, LAMBDA r : r.billId = billId)

\* findUnique({ where: { id } }): the rows with that id (none or one)
FindById(rows, id) == SelectSeq(rows, LAMBDA r : r.id = id)

----------------------------------------------------------------------------
(* Writes of one unit of work.  Each write is skipped once the unit has    *)
(* raised; faultAt is the ordinal of the write the store rejects.          *)

Rejected(ctx, faultAt) == faultAt = ctx.writes + 1

\* a slip: the unique index is missing, no value counts as held
TakenNever(rows, field, v) == FALSE

\* some row of the table already holds this value in this column
Taken(rows, field, v) == \E i \in 1..Len(rows) : rows[i][field] = v

\* tx.bill.create: status defaults to PENDING, paidAt / paidAmount to NULL;
\* bills_customerId_fkey, bills_billNumber_key
billCreate(ctx, data, faultAt) ==
  IF ~Ok(ctx) THEN ctx
  ELSE IF Rejected(ctx, faultAt) THEN Fail(ctx, "write error")
  ELSE IF data.customerId \notin Customers
    THEN Fail(ctx, "Foreign key constraint failed")
  ELSE IF Taken(ctx.db.bills, "billNumber", data.billNumber)
    THEN Fail(ctx, "Unique constraint failed")
  ELSE Wrote(ctx, [ctx.db EXCEPT !.bills = Append(@,
         data @@ [id |-> Len(ctx.db.bills) + 1, status |-> "PENDING",
                  paidAt |-> NULL, paidAmount |-> NULL])])

\* a slip: the columns the patch does not name fall back to zero
billUpdateResettingAmount(ctx, id, patch, faultAt) ==
  IF ~Ok(ctx) THEN ctx
  ELSE IF Rejected(ctx, faultAt) THEN Fail(ctx, "write error")
  ELSE IF FindById(ctx.db.bills, id) = <<>>
    THEN Fail(ctx, "Record to update not found")
  ELSE Wrote(ctx, [ctx.db EXCEPT !.bills[id] =
         patch @@ [amount |-> 0] @@ @])

\* tx.bill.update({ where: { id }, data: patch })
billUpdate(ctx, id, patch, faultAt) ==
  IF ~Ok(ctx) THEN ctx
  ELSE IF Rejected(ctx, faultAt) THEN Fail(ctx, "write error")
  ELSE IF FindById(ctx.db.bills, id) = <<>>
    THEN Fail(ctx, "Record to update not found")
  ELSE Wrote(ctx, [ctx.db EXCEPT !.bills[id] = patch @@ @])

\* a slip: the where clause is lost and every customer gets the patch
customerUpdateAll(ctx, id, patch, faultAt) ==
  IF ~Ok(ctx) THEN ctx
  ELSE IF Rejected(ctx, faultAt) THEN Fail(ctx, "write error")
  ELSE IF id \notin Customers
    THEN Fail(ctx, "Record to update not found")
  ELSE Wrote(ctx, [ctx.db EXCEPT !.customers =
         [c \in Customers |-> patch @@ @[c]]])

\* tx.customer.update({ where: { id }, data: patch })
customerUpdate(ctx, id, patch, faultAt) ==
  IF ~Ok(ctx) THEN ctx
  ELSE IF Rejected(ctx, faultAt) THEN Fail(ctx, "write error")
  ELSE IF id \notin Customers
    THEN Fail(ctx, "Record to update not found")
  ELSE Wrote(ctx, [ctx.db EXCEPT !.customers[id] = patch @@ @])

\* tx.payment.create: payments_customerId_fkey, payments_billId_fkey,
\* payments_paymentNumber_key
paymentCreate(ctx, data, faultAt) ==
  IF ~Ok(ctx) THEN ctx
  ELSE IF Rejected(ctx, faultAt) THEN Fail(ctx, "write error")
  ELSE IF data.customerId \notin Customers
    THEN Fail(ctx, "Foreign key constraint failed")
  ELSE IF data.billId # NULL /\ FindById(ctx.db.bills, data.billId) = <<>>
    THEN Fail(ctx, "Foreign key constraint failed")
  ELSE IF Taken(ctx.db.payments, "paymentNumber", data.paymentNumber)
    THEN Fail(ctx, "Unique constraint failed")
  ELSE Wrote(ctx, [ctx.db EXCEPT !.payments = Append(@,
         data @@ [id |-> Len(ctx.db.payments) + 1])])

\* tx.dueSettlement.create: due_settlements_customerId_fkey,
\* due_settlements_billId_fkey
dueSettlementCreate(ctx, data, faultAt) ==
  IF ~Ok(ctx) THEN ctx
  ELSE IF Rejected(ctx, faultAt) THEN Fail(ctx, "write error")
  ELSE IF data.customerId \notin Customers
    THEN Fail(ctx, "Foreign key constraint failed")
  ELSE IF FindById(ctx.db.bills, data.billId) = <<>>
    THEN Fail(ctx, "Foreign key constraint failed")
  ELSE Wrote(ctx, [ctx.db EXCEPT !.dueSettlements = Append(@,
         data @@ [id |-> Len(ctx.db.dueSettlements) + 1])])

\* tx.boxActivation.create: box_activations_customerId_fkey
boxActivationCreate(ctx, data, faultAt) ==
  IF ~Ok(ctx) THEN ctx
  ELSE IF Rejected(ctx, faultAt) THEN Fail(ctx, "write error")
  ELSE IF data.customerId \notin Customers
    THEN Fail(ctx, "Foreign key constraint failed")
  ELSE Wrote(ctx, [ctx.db EXCEPT !.boxActivations = Append(@,
         data @@ [id |-> Len(ctx.db.boxActivations) + 1,
                  transactionId |-> NULL])])

\* a slip: the where clause is lost and every box activation gets the patch
boxActivationUpdateAll(ctx, id, patch, faultAt) ==
  IF ~Ok(ctx) THEN ctx
  ELSE IF Rejected(ctx, faultAt) THEN Fail(ctx, "write error")
  ELSE IF FindById(ctx.db.boxActivations, id) = <<>>
    THEN Fail(ctx, "Record to update not found")
  ELSE Wrote(ctx, [ctx.db EXCEPT !.boxActivations =
         [i \in 1..Len(@) |-> patch @@ @[i]]])

\* tx.boxActivation.update({ where: { id }, data: patch })
boxActivationUpdate(ctx, id, patch, faultAt) ==
  IF ~Ok(ctx) THEN ctx
  ELSE IF Rejected(ctx, faultAt) THEN Fail(ctx, "write error")
  ELSE IF FindById(ctx.db.boxActivations, id) = <<>>
    THEN Fail(ctx, "Record to update not found")
  ELSE Wrote(ctx, [ctx.db EXCEPT !.boxActivations[id] = patch @@ @])

\* a slip: the new entry is stored ahead of the entries already there
transactionCreateFirst(ctx, data, faultAt) ==
  LET row == data @@ [id |-> Len(ctx.db.transactions) + 1,
                      relatedBillId |-> NULL, relatedPaymentId |-> NULL,
                      relatedDueSettlementId |-> NULL,
                      relatedActionId |-> NULL]
  IN IF ~Ok(ctx) THEN ctx
     ELSE IF Rejected(ctx, faultAt) THEN Fail(ctx, "write error")
     ELSE IF data.customerId \notin Customers
       THEN Fail(ctx, "Foreign key constraint failed")
     ELSE Wrote(ctx, [ctx.db EXCEPT !.transactions = <<row>> \o @])

\* a slip: the NULL defaults win over the back-reference that was passed
transactionCreateUnlinked(ctx, data, faultAt) ==
  LET row == [id |-> Len(ctx.db.transactions) + 1,
              relatedBillId |-> NULL, relatedPaymentId |-> NULL,
              relatedDueSettlementId |-> NULL,
              relatedActionId |-> NULL] @@ data
  IN IF ~Ok(ctx) THEN ctx
     ELSE IF Rejected(ctx, faultAt) THEN Fail(ctx, "write error")
     ELSE IF data.customerId \notin Customers
       THEN Fail(ctx, "Foreign key constraint failed")
     ELSE IF Taken(ctx.db.transactions, "transactionNumber",
                   row.transactionNumber)
       THEN Fail(ctx, "Unique constraint failed")
     ELSE Wrote(ctx, [ctx.db EXCEPT !.transactions = Append(@, row)])

\* tx.transaction.create: the back-references default to NULL;
\* transactions_customerId_fkey, transactions_transactionNumber_key,
\* transactions_relatedPaymentId_key, _relatedDueSettlementId_key,
\* _relatedActionId_key
transactionCreate(ctx, data, faultAt) ==
  LET row == data @@ [id |-> Len(ctx.db.transactions) + 1,
                      relatedBillId |-> NULL, relatedPaymentId |-> NULL,
                      relatedDueSettlementId |-> NULL,
                      relatedActionId |-> NULL]
      rows == ctx.db.transactions
  IN IF ~Ok(ctx) THEN ctx
     ELSE IF Rejected(ctx, faultAt) THEN Fail(ctx, "write error")
     ELSE IF data.customerId \notin Customers
       THEN Fail(ctx, "Foreign key constraint failed")
     ELSE IF \/ Taken(rows, "transactionNumber", row.transactionNumber)
             \/ \E f \in {"relatedPaymentId", "relatedDueSettlementId",
                          "relatedActionId"} :
                  row[f] # NULL /\ Taken(rows, f, row[f])
       THEN Fail(ctx, "Unique constraint failed")
     ELSE Wrote(ctx, [ctx.db EXCEPT !.transactions = Append(@, row)])

\* a slip: no rollback, what fn wrote before it threw stays
prismaTransactionNoRollback(db, ctx) == ctx.db

\* prisma.$transaction(fn): commit what fn wrote, or nothing if fn threw
prismaTransaction(db, ctx) == IF Ok(ctx) THEN ctx.db ELSE db

----------------------------------------------------------------------------
(* Numbering generators: prefix + last digits of Date.now() + random       *)
(* suffix, regenerated while a committed row already holds the number.     *)
(* The value returned is one no committed row holds; while every           *)
(* candidate of this millisecond is held the generator keeps regenerating  *)
(* and the request waits for the clock.                                    *)

\* the suffixes Math.floor(Math.random() * 1000) can yield, here a single one
RandomSuffixes == {0}

\* the numbers a generator can build at this millisecond (prefix left out:
\* each prefix has its own table)
Candidates == {<<now, r>> : r \in RandomSuffixes}

generateBillNumber == {n \in Candidates : ~Taken(bills, "billNumber", n)}

generatePaymentNumber ==
  {n \in Candidates : ~Taken(payments, "paymentNumber", n)}

generateTransactionNumber ==
  {n \in Candidates : ~Taken(transactions, "transactionNumber", n)}

----------------------------------------------------------------------------
(* The four mutating operations, as the function each passes to            *)
(* prisma.$transaction.                                                    *)

Last(rows) == rows[Len(rows)]

\* BillingService.createBill
createBill(db, data, billNumber, transactionNumber, faultAt) ==
  LET c1 == billCreate(Begin(db),
              [billNumber |-> billNumber, customerId |-> data.customerId,
               billDate |-> data.billDate, dueDate |-> data.dueDate,
               amount |-> data.amount], faultAt)
      bill == Last(c1.db.bills)
      c2 == customerUpdate(c1, data.customerId,
              [lastBillDate |-> data.billDate,
               nextBillDate |-> data.dueDate], faultAt)
  IN transactionCreate(c2,
       [transactionNumber |-> transactionNumber,
        customerId |-> data.customerId, type |-> "BILL_GENERATED",
        amount |-> data.amount, relatedBillId |-> bill.id], faultAt)

\* a slip: the payments already recorded are left out of the total
totalPaidNewOnly(existingPayments, data) == data.amount

\* a slip: the payments found are subtracted from the new amount
totalPaidReversed(existingPayments, data) ==
  data.amount - SumSeq(existingPayments, "amount")

\* totalPaid of createPayment: the payments found for the bill plus
\* data.amount
totalPaidOf(existingPayments, data) ==
  SumSeq(existingPayments, "amount") + data.amount

\* a slip: the bill update of createPayment is left out
applyPaymentNever(ctx, data, faultAt) == ctx

\* a slip: a payment sent without a bill is applied to the oldest bill
applyPaymentToOldestBill(ctx, data, faultAt) ==
  LET billId == IF data.billId = NULL /\ ctx.db.bills # <<>> THEN 1
                ELSE data.billId
      found == FindById(ctx.db.bills, billId)
      bill == found[1]
      existingPayments == WhereBillId(ctx.db.payments, billId)
      totalPaid == totalPaidOf(existingPayments, data)
      isFullyPaid == totalPaid >= bill.amount
  IN IF ~Ok(ctx) \/ billId = NULL \/ found = <<>> THEN ctx
     ELSE billUpdate(ctx, billId,
            [paidAt |-> IF isFullyPaid THEN now ELSE bill.paidAt,
             paidAmount |-> totalPaid,
             status |-> IF isFullyPaid THEN "PAID" ELSE "PARTIAL"], faultAt)

\* the bill update of createPayment, taken when data.billId resolves; the
\* payments are read after the new payment was created in the same unit of
\* work, so existingPayments holds the new payment too
applyPaymentToBill(ctx, data, faultAt) ==
  LET found == FindById(ctx.db.bills, data.billId)
      bill == found[1]
      existingPayments == WhereBillId(ctx.db.payments, data.billId)
      totalPaid == totalPaidOf(existingPayments, data)
      isFullyPaid == totalPaid >= bill.amount
  IN IF ~Ok(ctx) \/ data.billId = NULL \/ found = <<>> THEN ctx
     ELSE billUpdate(ctx, data.billId,
            [paidAt |-> IF isFullyPaid THEN now ELSE bill.paidAt,
             paidAmount |-> totalPaid,
             status |-> IF isFullyPaid THEN "PAID" ELSE "PARTIAL"], faultAt)

\* BillingService.createPayment
createPayment(db, data, paymentNumber, transactionNumber, faultAt) ==
  LET c1 == paymentCreate(Begin(db),
              [paymentNumber |-> paymentNumber,
               customerId |-> data.customerId, amount |-> data.amount,
               billId |-> data.billId, status |-> "COMPLETED"], faultAt)
      payment == Last(c1.db.payments)
      c2 == applyPaymentToBill(c1, data, faultAt)
  IN transactionCreate(c2,
       [transactionNumber |-> transactionNumber,
        customerId |-> data.customerId, type |-> "PAYMENT_RECEIVED",
        amount |-> data.amount, relatedPaymentId |-> payment.id], faultAt)

\* a slip: the settlements already recorded are not subtracted
remainingIgnoringPrior(bill, existingSettlements, data) ==
  bill.amount - data.settledAmount

\* remainingAmount of createDueSettlement
remainingAmountOf(bill, existingSettlements, data) ==
  LET settledAmount == SumSeq(existingSettlements, "settledAmount")
  IN bill.amount - settledAmount - data.settledAmount

\* a slip: a remaining amount of exactly 0 counts as not settled
settlementStatusStrict(remainingAmount) ==
  IF remainingAmount < 0 THEN "SETTLED" ELSE "PARTIAL"

\* status of the new DueSettlement
settlementStatus(remainingAmount) ==
  IF remainingAmount <= 0 THEN "SETTLED" ELSE "PARTIAL"

\* a slip: the ledger entry records what remains, not what was settled
createDueSettlementLedgerRemaining(db, data, transactionNumber, faultAt) ==
  LET c0 == Begin(db)
      found == FindById(db.bills, data.billId)
      bill == found[1]
      existingSettlements == WhereBillId(db.dueSettlements, data.billId)
      remainingAmount == remainingAmountOf(bill, existingSettlements, data)
      c1 == dueSettlementCreate(c0,
              [customerId |-> data.customerId, billId |-> data.billId,
               originalAmount |-> bill.amount,
               settledAmount |-> data.settledAmount,
               remainingAmount |-> remainingAmount,
               settlementDate |-> now,
               status |-> settlementStatus(remainingAmount)], faultAt)
      dueSettlement == Last(c1.db.dueSettlements)
      c2 == IF Ok(c1) /\ remainingAmount <= 0
              THEN billUpdate(c1, data.billId, [status |-> "SETTLED"],
                              faultAt)
              ELSE c1
  IN IF found = <<>> THEN Fail(c0, "Bill not found")
     ELSE transactionCreate(c2,
            [transactionNumber |-> transactionNumber,
             customerId |-> data.customerId, type |-> "DUE_SETTLED",
             amount |-> remainingAmount,
             relatedDueSettlementId |-> dueSettlement.id], faultAt)

\* a slip: the bill is not looked up first, the insert runs into
\* due_settlements_billId_fkey
createDueSettlementNoLookup(db, data, transactionNumber, faultAt) ==
  LET c0 == Begin(db)
      found == FindById(db.bills, data.billId)
      bill == found[1]
      existingSettlements == WhereBillId(db.dueSettlements, data.billId)
      remainingAmount == remainingAmountOf(bill, existingSettlements, data)
      c1 == dueSettlementCreate(c0,
              [customerId |-> data.customerId, billId |-> data.billId,
               originalAmount |-> bill.amount,
               settledAmount |-> data.settledAmount,
               remainingAmount |-> remainingAmount,
               settlementDate |-> now,
               status |-> settlementStatus(remainingAmount)], faultAt)
      dueSettlement == Last(c1.db.dueSettlements)
      c2 == IF Ok(c1) /\ remainingAmount <= 0
              THEN billUpdate(c1, data.billId, [status |-> "SETTLED"],
                              faultAt)
              ELSE c1
  IN IF found = <<>> THEN Fail(c0, "Foreign key constraint failed")
     ELSE transactionCreate(c2,
            [transactionNumber |-> transactionNumber,
             customerId |-> data.customerId, type |-> "DUE_SETTLED",
             amount |-> data.settledAmount,
             relatedDueSettlementId |-> dueSettlement.id], faultAt)

\* BillingService.createDueSettlement
createDueSettlement(db, data, transactionNumber, faultAt) ==
  LET c0 == Begin(db)
      found == FindById(db.bills, data.billId)
      bill == found[1]
      existingSettlements == WhereBillId(db.dueSettlements, data.billId)
      remainingAmount == remainingAmountOf(bill, existingSettlements, data)
      c1 == dueSettlementCreate(c0,
              [customerId |-> data.customerId, billId |-> data.billId,
               originalAmount |-> bill.amount,
               settledAmount |-> data.settledAmount,
               remainingAmount |-> remainingAmount,
               settlementDate |-> now,
               status |-> settlementStatus(remainingAmount)], faultAt)
      dueSettlement == Last(c1.db.dueSettlements)
      c2 == IF Ok(c1) /\ remainingAmount <= 0
              THEN billUpdate(c1, data.billId, [status |-> "SETTLED"],
                              faultAt)
              ELSE c1
  IN IF found = <<>> THEN Fail(c0, "Bill not found")
     ELSE transactionCreate(c2,
            [transactionNumber |-> transactionNumber,
             customerId |-> data.customerId, type |-> "DUE_SETTLED",
             amount |-> data.settledAmount,
             relatedDueSettlementId |-> dueSettlement.id], faultAt)

\* a slip: the REACTIVATED case is missing and falls to the default
boxStatusForNoReactivated(actionType) ==
  IF actionType = "ACTIVATED" THEN "ACTIVE"
  ELSE IF actionType = "SUSPENDED" THEN "SUSPENDED"
  ELSE "INACTIVE"

\* the box status createBoxActivation derives from the action type
boxStatusFor(actionType) ==
  IF actionType = "ACTIVATED" THEN "ACTIVE"
  ELSE IF actionType = "SUSPENDED" THEN "SUSPENDED"
  ELSE IF actionType = "DEACTIVATED" THEN "INACTIVE"
  ELSE IF actionType = "REACTIVATED" THEN "ACTIVE"
  ELSE "INACTIVE"

\* a slip: REACTIVATED stamps boxActivatedAt as ACTIVATED does
createBoxActivationStampingReactivated(db, data, transactionNumber, faultAt) ==
  LET c1 == boxActivationCreate(Begin(db),
              [customerId |-> data.customerId,
               actionType |-> data.actionType, actionDate |-> now], faultAt)
      boxActivation == Last(c1.db.boxActivations)
      patch == [boxStatus |-> boxStatusFor(data.actionType),
                lastBoxStatusChangedAt |-> now]
      c2 == customerUpdate(c1, data.customerId,
              IF data.actionType \in {"ACTIVATED", "REACTIVATED"}
                THEN patch @@ [boxActivatedAt |-> now] ELSE patch, faultAt)
      c3 == transactionCreate(c2,
              [transactionNumber |-> transactionNumber,
               customerId |-> data.customerId,
               type |-> "BOX_" \o data.actionType, amount |-> 0,
               relatedActionId |-> boxActivation.id], faultAt)
      transaction == Last(c3.db.transactions)
  IN boxActivationUpdate(c3, boxActivation.id,
       [transactionId |-> transaction.id], faultAt)

\* a slip: ACTIVATED no longer stamps boxActivatedAt
createBoxActivationNeverStamping(db, data, transactionNumber, faultAt) ==
  LET c1 == boxActivationCreate(Begin(db),
              [customerId |-> data.customerId,
               actionType |-> data.actionType, actionDate |-> now], faultAt)
      boxActivation == Last(c1.db.boxActivations)
      patch == [boxStatus |-> boxStatusFor(data.actionType),
                lastBoxStatusChangedAt |-> now]
      c2 == customerUpdate(c1, data.customerId, patch, faultAt)
      c3 == transactionCreate(c2,
              [transactionNumber |-> transactionNumber,
               customerId |-> data.customerId,
               type |-> "BOX_" \o data.actionType, amount |-> 0,
               relatedActionId |-> boxActivation.id], faultAt)
      transaction == Last(c3.db.transactions)
  IN boxActivationUpdate(c3, boxActivation.id,
       [transactionId |-> transaction.id], faultAt)

\* BoxService.createBoxActivation
createBoxActivation(db, data, transactionNumber, faultAt) ==
  LET c1 == boxActivationCreate(Begin(db),
              [customerId |-> data.customerId,
               actionType |-> data.actionType, actionDate |-> now], faultAt)
      boxActivation == Last(c1.db.boxActivations)
      patch == [boxStatus |-> boxStatusFor(data.actionType),
                lastBoxStatusChangedAt |-> now]
      c2 == customerUpdate(c1, data.customerId,
              IF data.actionType = "ACTIVATED"
                THEN patch @@ [boxActivatedAt |-> now] ELSE patch, faultAt)
      c3 == transactionCreate(c2,
              [transactionNumber |-> transactionNumber,
               customerId |-> data.customerId,
               type |-> "BOX_" \o data.actionType, amount |-> 0,
               relatedActionId |-> boxActivation.id], faultAt)
      transaction == Last(c3.db.transactions)
  IN boxActivationUpdate(c3, boxActivation.id,
       [transactionId |-> transaction.id], faultAt)

----------------------------------------------------------------------------
(* The state machine: one request at a time, each a whole unit of work.    *)
(* A request that raised is answered with the error before the next        *)
(* request is served.                                                      *)

\* the requests that can be in progress at the same time (two HTTP
\* requests served by the one Node process, interleaved at their awaits)
Requests == {"r1", "r2"}

\* a request slot with no request in it
Idle == [op |-> "none"]

\* what the last request was and how it ended: the error it raised, the
\* writes it had done by then and, when it committed, its input and the id
\* of the row it created
NoOp == [op |-> "none", err |-> "none", writes |-> 0, id |-> NULL,
         data |-> [customerId |-> "cX"]]

Init ==
  /\ customers = [c \in Customers |->
       [lastBillDate |-> NULL, nextBillDate |-> NULL,
        boxStatus |-> "INACTIVE", boxActivatedAt |-> NULL,
        lastBoxStatusChangedAt |-> NULL]]
  /\ bills = <<>>
  /\ payments = <<>>
  /\ dueSettlements = <<>>
  /\ boxActivations = <<>>
  /\ transactions = <<>>
  /\ now = 0
  /\ lastOp = NoOp
  /\ inFlight = [r \in Requests |-> Idle]

\* the store after the unit of work ctx, and the record of the request
Finish(op, data, ctx, created) ==
  LET db == prismaTransaction(Db, ctx)
  IN /\ customers' = db.customers
     /\ bills' = db.bills
     /\ payments' = db.payments
     /\ dueSettlements' = db.dueSettlements
     /\ boxActivations' = db.boxActivations
     /\ transactions' = db.transactions
     /\ lastOp' = [op |-> op, err |-> ctx.err, writes |-> ctx.writes,
                   id |-> IF Ok(ctx) THEN created ELSE NULL,
                   data |-> IF Ok(ctx) THEN data ELSE NoOp.data]
     /\ UNCHANGED now

CreateBill ==
  /\ Ok(lastOp)
  /\ Len(transactions) < MaxTransactions
  /\ UNCHANGED inFlight
  /\ \E customerId \in CustomerIds, planId \in PlanSelections,
        amount \in BillAmounts, billDate \in BillDates,
        billNumber \in generateBillNumber,
        transactionNumber \in generateTransactionNumber,
        faultAt \in Faults :
     \E dueDate \in {d \in DueDates : d >= billDate} :
       LET data == [customerId |-> customerId, planId |-> planId,
                    amount |-> amount, billDate |-> billDate,
                    dueDate |-> dueDate]
       IN Finish("createBill", data,
                 createBill(Db, data, billNumber, transactionNumber, faultAt),
                 Len(bills) + 1)

CreatePayment ==
  /\ Ok(lastOp)
  /\ Len(transactions) < MaxTransactions
  /\ UNCHANGED inFlight
  /\ \E customerId \in CustomerIds, amount \in PayAmounts,
        billId \in {NULL} \cup (1..(Len(bills) + 1)),
        paymentNumber \in generatePaymentNumber,
        transactionNumber \in generateTransactionNumber,
        faultAt \in Faults :
       LET data == [customerId |-> customerId, amount |-> amount,
                    billId |-> billId]
       IN Finish("createPayment", data,
                 createPayment(Db, data, paymentNumber, transactionNumber,
                               faultAt),
                 Len(payments) + 1)

CreateDueSettlement ==
  /\ Ok(lastOp)
  /\ Len(transactions) < MaxTransactions
  /\ UNCHANGED inFlight
  /\ \E customerId \in CustomerIds, settledAmount \in PayAmounts,
        billId \in 1..(Len(bills) + 1),
        transactionNumber \in generateTransactionNumber,
        faultAt \in Faults :
       LET data == [customerId |-> customerId, billId |-> billId,
                    settledAmount |-> settledAmount]
       IN Finish("createDueSettlement", data,
                 createDueSettlement(Db, data, transactionNumber, faultAt),
                 Len(dueSettlements) + 1)

CreateBoxActivation ==
  /\ Ok(lastOp)
  /\ Len(transactions) < MaxTransactions
  /\ UNCHANGED inFlight
  /\ \E customerId \in CustomerIds, actionType \in ActionTypes,
        transactionNumber \in generateTransactionNumber,
        faultAt \in Faults :
       LET data == [customerId |-> customerId, actionType |-> actionType]
       IN Finish("createBoxActivation", data,
                 createBoxActivation(Db, data, transactionNumber, faultAt),
                 Len(boxActivations) + 1)

\* the controller answers 404 NotFound when the error message includes
\* 'not found', and a generic failure otherwise
IsNotFound(err) == err \in {"Bill not found", "Record to update not found"}

\* the controller's catch block: the error goes back to the caller
ReplyError ==
  /\ ~Ok(lastOp)
  /\ lastOp' = NoOp
  /\ UNCHANGED <<customers, bills, payments, dueSettlements, boxActivations,
                 transactions, now, inFlight>>

\* time passes between requests
Tick ==
  /\ now < MaxTime
  /\ now' = now + 1
  /\ UNCHANGED <<customers, bills, payments, dueSettlements, boxActivations,
                 transactions, lastOp, inFlight>>

Next ==
  \/ CreateBill
  \/ CreatePayment
  \/ CreateDueSettlement
  \/ CreateBoxActivation
  \/ ReplyError
  \/ Tick

Spec == Init /\ [][Next]_vars

----------------------------------------------------------------------------
(* Concurrent requests.  A generator reads the committed rows through the  *)
(* global prisma client, not through tx, so between the moment a request   *)
(* obtains its numbers and the moment its unit of work commits another     *)
(* request can commit.  A request first obtains its numbers, later its     *)
(* unit of work runs against the rows committed by then.                   *)

\* the customer the concurrent requests are made for
ConcurrentCustomers == {"c1"}

\* createBill of request r has passed its generators' existence checks
BeginCreateBill(r) ==
  /\ inFlight[r] = Idle
  /\ Len(transactions) + Cardinality({q \in Requests : inFlight[q] # Idle})
       < MaxTransactions
  /\ \E customerId \in ConcurrentCustomers, planId \in PlanSelections,
        amount \in BillAmounts, billDate \in BillDates,
        dueDate \in DueDates,
        billNumber \in generateBillNumber,
        transactionNumber \in generateTransactionNumber :
       inFlight' = [inFlight EXCEPT ![r] =
         [op |-> "createBill",
          data |-> [customerId |-> customerId, planId |-> planId,
                    amount |-> amount, billDate |-> billDate,
                    dueDate |-> dueDate],
          number |-> billNumber, transactionNumber |-> transactionNumber]]
  /\ UNCHANGED <<customers, bills, payments, dueSettlements, boxActivations,
                 transactions, now, lastOp>>

\* createPayment of request r has passed its generators' existence checks
BeginCreatePayment(r) ==
  /\ inFlight[r] = Idle
  /\ Len(transactions) + Cardinality({q \in Requests : inFlight[q] # Idle})
       < MaxTransactions
  /\ \E customerId \in ConcurrentCustomers, amount \in PayAmounts,
        billId \in {NULL} \cup (1..Len(bills)),
        paymentNumber \in generatePaymentNumber,
        transactionNumber \in generateTransactionNumber :
       inFlight' = [inFlight EXCEPT ![r] =
         [op |-> "createPayment",
          data |-> [customerId |-> customerId, amount |-> amount,
                    billId |-> billId],
          number |-> paymentNumber,
          transactionNumber |-> transactionNumber]]
  /\ UNCHANGED <<customers, bills, payments, dueSettlements, boxActivations,
                 transactions, now, lastOp>>

\* the unit of work of request r runs and commits or rolls back
Complete(r) ==
  LET q == inFlight[r]
  IN /\ q # Idle
     /\ IF q.op = "createBill"
          THEN Finish("createBill", q.data,
                      createBill(Db, q.data, q.number, q.transactionNumber, 0),
                      Len(bills) + 1)
          ELSE Finish("createPayment", q.data,
                      createPayment(Db, q.data, q.number,
                                    q.transactionNumber, 0),
                      Len(payments) + 1)
     /\ inFlight' = [inFlight EXCEPT ![r] = Idle]

ConcurrentNext ==
  \/ \E r \in Requests : BeginCreateBill(r)
  \/ \E r \in Requests : BeginCreatePayment(r)
  \/ \E r \in Requests : Complete(r)
  \/ Tick

SpecConcurrent == Init /\ [][ConcurrentNext]_vars

----------------------------------------------------------------------------
(* Concurrent units of work that do not see each other's uncommitted rows. *)
(* A unit reads and computes on its view, the rows committed when it       *)
(* began; at commit the rows it inserted are added to the committed store  *)
(* and the columns it updated overwrite the committed row.  Nothing in     *)
(* createPayment or createDueSettlement checks a version of the bill.      *)

\* createPayment of request r against an existing bill begins
BeginIsolatedPayment(r) ==
  /\ inFlight[r] = Idle
  /\ Len(transactions) + Cardinality({q \in Requests : inFlight[q] # Idle})
       < MaxTransactions
  /\ \E customerId \in ConcurrentCustomers, amount \in PayAmounts,
        billId \in 1..Len(bills),
        paymentNumber \in generatePaymentNumber,
        transactionNumber \in generateTransactionNumber :
       inFlight' = [inFlight EXCEPT ![r] =
         [op |-> "createPayment",
          data |-> [customerId |-> customerId, amount |-> amount,
                    billId |-> billId],
          number |-> paymentNumber,
          transactionNumber |-> transactionNumber, view |-> Db]]
  /\ UNCHANGED <<customers, bills, payments, dueSettlements, boxActivations,
                 transactions, now, lastOp>>

\* createDueSettlement of request r against an existing bill begins
BeginIsolatedSettlement(r) ==
  /\ inFlight[r] = Idle
  /\ Len(transactions) + Cardinality({q \in Requests : inFlight[q] # Idle})
       < MaxTransactions
  /\ \E customerId \in ConcurrentCustomers, settledAmount \in PayAmounts,
        billId \in 1..Len(bills),
        transactionNumber \in generateTransactionNumber :
       inFlight' = [inFlight EXCEPT ![r] =
         [op |-> "createDueSettlement",
          data |-> [customerId |-> customerId, billId |-> billId,
                    settledAmount |-> settledAmount],
          number |-> NULL,
          transactionNumber |-> transactionNumber, view |-> Db]]
  /\ UNCHANGED <<customers, bills, payments, dueSettlements, boxActivations,
                 transactions, now, lastOp>>

\* the commit of a createPayment unit that ended as ctx on its view: the
\* payment and its ledger entry are inserted, the bill columns the unit
\* wrote (paidAt, paidAmount, status) overwrite the committed bill
commitPayment(db, ctx) ==
  LET payment == [Last(ctx.db.payments) EXCEPT !.id = Len(db.payments) + 1]
      transaction == [Last(ctx.db.transactions) EXCEPT
                        !.id = Len(db.transactions) + 1,
                        !.relatedPaymentId = payment.id]
      written == ctx.db.bills[payment.billId]
  IN IF ~Ok(ctx) THEN ctx
     ELSE IF \/ Taken(db.payments, "paymentNumber", payment.paymentNumber)
             \/ Taken(db.transactions, "transactionNumber",
                      transaction.transactionNumber)
       THEN Fail(ctx, "Unique constraint failed")
     ELSE [ctx EXCEPT !.db =
            [db EXCEPT !.payments = Append(@, payment),
                       !.bills[payment.billId] =
                         [@ EXCEPT !.paidAt = written.paidAt,
                                   !.paidAmount = written.paidAmount,
                                   !.status = written.status],
                       !.transactions = Append(@, transaction)]]

\* the commit of a createDueSettlement unit that ended as ctx on its view:
\* the settlement and its ledger entry are inserted, and the bill's status
\* is overwritten when the unit wrote it (remainingAmount <= 0)
commitDueSettlement(db, ctx) ==
  LET dueSettlement == [Last(ctx.db.dueSettlements) EXCEPT
                          !.id = Len(db.dueSettlements) + 1]
      transaction == [Last(ctx.db.transactions) EXCEPT
                        !.id = Len(db.transactions) + 1,
                        !.relatedDueSettlementId = dueSettlement.id]
  IN IF ~Ok(ctx) THEN ctx
     ELSE IF Taken(db.transactions, "transactionNumber",
                   transaction.transactionNumber)
       THEN Fail(ctx, "Unique constraint failed")
     ELSE [ctx EXCEPT !.db =
            [db EXCEPT !.dueSettlements = Append(@, dueSettlement),
                       !.bills[dueSettlement.billId] =
                         IF dueSettlement.remainingAmount <= 0
                           THEN [@ EXCEPT !.status = "SETTLED"] ELSE @,
                       !.transactions = Append(@, transaction)]]

\* the unit of work of request r, run on its view, commits or rolls back
CommitIsolated(r) ==
  LET q == inFlight[r]
  IN /\ q # Idle
     /\ IF q.op = "createBill"
          THEN Finish("createBill", q.data,
                      createBill(Db, q.data, q.number, q.transactionNumber, 0),
                      Len(bills) + 1)
          ELSE IF q.op = "createPayment"
          THEN Finish("createPayment", q.data,
                      commitPayment(Db,
                        createPayment(q.view, q.data, q.number,
                                      q.transactionNumber, 0)),
                      Len(payments) + 1)
          ELSE Finish("createDueSettlement", q.data,
                      commitDueSettlement(Db,
                        createDueSettlement(q.view, q.data,
                                            q.transactionNumber, 0)),
                      Len(dueSettlements) + 1)
     /\ inFlight' = [inFlight EXCEPT ![r] = Idle]

IsolatedNext ==
  \/ \E r \in Requests : BeginCreateBill(r)
  \/ \E r \in Requests : BeginIsolatedPayment(r)
  \/ \E r \in Requests : BeginIsolatedSettlement(r)
  \/ \E r \in Requests : CommitIsolated(r)
  \/ Tick

SpecIsolated == Init /\ [][IsolatedNext]_vars

----------------------------------------------------------------------------
(* Properties *)

\* the ledger entries whose back-reference `field` points to the row `id`
Referencing(field, id) ==
  {t \in 1..Len(transactions) : transactions[t][field] = id}

\* the back-references a ledger entry has populated
Populated(t) ==
  {f \in {"relatedBillId", "relatedPaymentId", "relatedDueSettlementId",
          "relatedActionId"} : t[f] # NULL}

\* C1: every Bill, Payment, DueSettlement and BoxActivation in the store is
\* referenced by exactly one Transaction, and every Transaction has exactly
\* one of its four back-references populated.
C1_LedgerBijection ==
  /\ \A i \in 1..Len(bills) :
       Cardinality(Referencing("relatedBillId", bills[i].id)) = 1
  /\ \A i \in 1..Len(payments) :
       Cardinality(Referencing("relatedPaymentId", payments[i].id)) = 1
  /\ \A i \in 1..Len(dueSettlements) :
       Cardinality(Referencing("relatedDueSettlementId",
                               dueSettlements[i].id)) = 1
  /\ \A i \in 1..Len(boxActivations) :
       Cardinality(Referencing("relatedActionId", boxActivations[i].id)) = 1
  /\ \A t \in 1..Len(transactions) :
       Cardinality(Populated(transactions[t])) = 1

\* three committed operations of three kinds, each with its ledger entry
C1_Witness ==
  /\ Len(bills) >= 1
  /\ Len(payments) + Len(dueSettlements) >= 1
  /\ Len(boxActivations) >= 1
  /\ Len(transactions) = 3

\* C2: an operation that raised at any step leaves the store exactly as it
\* was before the operation began.
C2_FailureLeavesStoreUnchanged == [][~Ok(lastOp') => Db' = Db]_vars

\* an operation raised after at least two of its writes had been done
C2_Witness == ~Ok(lastOp) /\ lastOp.writes >= 2
\* the amounts of the Payment records that reference the bill, summed
PaidOn(billId) == SumSeq(WhereBillId(payments, billId), "amount")

\* the last request was a committed createPayment against a bill
PaidABill ==
  /\ lastOp.op = "createPayment"
  /\ Ok(lastOp)
  /\ lastOp.data.billId # NULL

\* C3: after createPayment with a billId that resolves to a bill,
\* bill.paidAmount equals the sum of the amounts of all Payment records that
\* reference that bill, the new payment counted exactly once.
C3_PaidAmountIsSumOfPayments ==
  PaidABill => bills[lastOp.data.billId].paidAmount = PaidOn(lastOp.data.billId)

\* C4: immediately after createPayment against a bill, bill.status is PAID
\* if the cumulative amount of the payments applied to that bill is at least
\* bill.amount, and PARTIAL otherwise.
C4_StatusFollowsCumulativePayments ==
  PaidABill =>
    LET bill == bills[lastOp.data.billId]
    IN bill.status = IF PaidOn(bill.id) >= bill.amount THEN "PAID"
                     ELSE "PARTIAL"

\* C5 as stated: in every reachable state every bill whose applied payments
\* sum to at least bill.amount has status PAID.
C5_FullyPaidIsPaid ==
  \A i \in 1..Len(bills) :
    PaidOn(bills[i].id) >= bills[i].amount => bills[i].status = "PAID"

\* C5 as amended: in every reachable state every bill whose applied payments
\* sum to at least bill.amount has status PAID or SETTLED (a due settlement
\* that leaves nothing remaining overwrites PAID with SETTLED).
C5_FullyPaidIsPaidOrSettled ==
  \A i \in 1..Len(bills) :
    PaidOn(bills[i].id) >= bills[i].amount
      => bills[i].status \in {"PAID", "SETTLED"}

\* a bill paid in full and then settled
C5_Witness ==
  \E i \in 1..Len(bills) :
    /\ PaidOn(bills[i].id) >= bills[i].amount
    /\ bills[i].status = "SETTLED"

\* the settledAmount of the settlements recorded against the same bill
\* before the i-th settlement, summed
PriorSettled(i) ==
  SumSeq(WhereBillId(SubSeq(dueSettlements, 1, i - 1),
                     dueSettlements[i].billId), "settledAmount")

\* C6: every DueSettlement has remainingAmount equal to bill.amount minus
\* the settledAmount of all settlements previously recorded against the same
\* bill minus its own settledAmount, and originalAmount equal to bill.amount.
C6_RemainingAmount ==
  \A i \in 1..Len(dueSettlements) :
    LET s == dueSettlements[i]
        bill == bills[s.billId]
    IN /\ s.remainingAmount = bill.amount - PriorSettled(i) - s.settledAmount
       /\ s.originalAmount = bill.amount

\* a second settlement against a bill that already has one
C6_Witness ==
  \E i \in 1..Len(dueSettlements) : PriorSettled(i) > 0

\* C7: createDueSettlement gives the new settlement status SETTLED and sets
\* bill.status to SETTLED exactly when the computed remainingAmount is <= 0;
\* otherwise the settlement is PARTIAL and the bill's status is unchanged.
C7_SettledExactlyWhenNothingRemains ==
  [][Len(dueSettlements') = Len(dueSettlements) + 1 =>
       LET s == dueSettlements'[Len(dueSettlements')]
       IN IF s.remainingAmount <= 0
            THEN s.status = "SETTLED" /\ bills'[s.billId].status = "SETTLED"
            ELSE /\ s.status = "PARTIAL"
                 /\ bills'[s.billId].status = bills[s.billId].status]_vars

\* a partial settlement left the bill's status alone, a later one settled it
C7_Witness ==
  \E i, j \in 1..Len(dueSettlements) :
    /\ i < j
    /\ dueSettlements[i].billId = dueSettlements[j].billId
    /\ dueSettlements[i].status = "PARTIAL"
    /\ dueSettlements[j].status = "SETTLED"
    /\ dueSettlements[j].remainingAmount = 0
    /\ bills[dueSettlements[j].billId].status = "SETTLED"

\* effectivePrice: discountedPrice when present, price otherwise
effectivePrice(p) ==
  IF Plans[p].discountedPrice # NULL THEN Plans[p].discountedPrice
  ELSE Plans[p].price

RECURSIVE totalAmount(_)
\* the sum over the plan set of effectivePrice * months
totalAmount(P) ==
  IF P = {} THEN 0
  ELSE LET p == CHOOSE x \in P : TRUE
       IN effectivePrice(p) * Plans[p].months + totalAmount(P \ {p})

\* the longest duration of the plan set, in months
maxDuration(P) == CHOOSE m \in {Plans[p].months : p \in P} :
                    \A p \in P : Plans[p].months <= m

\* the last request was a committed createBill
CreatedABill == lastOp.op = "createBill" /\ Ok(lastOp)

\* C8: createBill for a plan set P stores bill.amount, and the amount of its
\* BILL_GENERATED transaction, equal to the sum over P of effectivePrice *
\* months, whatever amount the caller supplied.
C8_AmountFromPlans ==
  CreatedABill =>
    /\ bills[lastOp.id].amount = totalAmount(lastOp.data.planId)
    /\ \A t \in Referencing("relatedBillId", lastOp.id) :
         transactions[t].amount = totalAmount(lastOp.data.planId)

\* C9: createBill for a plan set P and bill date D stores bill.dueDate equal
\* to D plus the maximum of months(p) over P, whatever dueDate the caller
\* supplied.
C9_DueDateFromLongestPlan ==
  CreatedABill =>
    bills[lastOp.id].dueDate
      = lastOp.data.billDate + maxDuration(lastOp.data.planId)

\* C10: a successful createBill creates the bill with status PENDING and
\* sets that customer's lastBillDate to the bill's billDate and nextBillDate
\* to the bill's dueDate, leaving every other customer and every existing
\* bill unchanged.
C10_CreateBillEffect ==
  [][Len(bills') = Len(bills) + 1 =>
       LET bill == bills'[Len(bills')]
       IN /\ bill.status = "PENDING"
          /\ customers'[bill.customerId].lastBillDate = bill.billDate
          /\ customers'[bill.customerId].nextBillDate = bill.dueDate
          /\ \A c \in Customers \ {bill.customerId} :
               customers'[c] = customers[c]
          /\ SubSeq(bills', 1, Len(bills)) = bills]_vars

\* a bill was created while an earlier bill, already paid, was in the store
C10_Witness ==
  /\ CreatedABill
  /\ lastOp.id = 2
  /\ bills[1].status = "PAID"
  /\ bills[2].status = "PENDING"
  /\ customers[bills[2].customerId].nextBillDate = bills[2].dueDate

\* C15: no two Bills share a billNumber, no two Payments a paymentNumber and
\* no two Transactions a transactionNumber, also when concurrent requests
\* passed the generators' existence checks with the same candidate: the
\* later insert fails on the unique index and stores nothing.
C15_NumbersUnique ==
  /\ \A i, j \in 1..Len(bills) :
       i # j => bills[i].billNumber # bills[j].billNumber
  /\ \A i, j \in 1..Len(payments) :
       i # j => payments[i].paymentNumber # payments[j].paymentNumber
  /\ \A i, j \in 1..Len(transactions) :
       i # j => transactions[i].transactionNumber
                  # transactions[j].transactionNumber
  /\ lastOp.err = "Unique constraint failed" =>
       /\ Len(bills) + Len(payments) = Len(transactions)
       /\ \A i \in 1..Len(bills) : Referencing("relatedBillId", i) # {}
       /\ \A i \in 1..Len(payments) : Referencing("relatedPaymentId", i) # {}

\* a request lost the race: its number was committed by another request
\* between its existence check and its insert
C15_Witness ==
  /\ lastOp.err = "Unique constraint failed"
  /\ Len(transactions) >= 1
  /\ \E r \in Requests : inFlight[r] = Idle

\* C11: the ledger entry of each source record carries its type, amount and
\* customer: BILL_GENERATED with the bill's amount, PAYMENT_RECEIVED with the
\* payment's amount, DUE_SETTLED with the settlement's settledAmount (not its
\* remainingAmount), BOX_<actionType> with amount 0, and the customerId of
\* the source record.
C11_LedgerEntryMatchesSource ==
  \A i \in 1..Len(transactions) :
    LET t == transactions[i]
    IN /\ t.relatedBillId # NULL =>
            /\ t.type = "BILL_GENERATED"
            /\ t.amount = bills[t.relatedBillId].amount
            /\ t.customerId = bills[t.relatedBillId].customerId
       /\ t.relatedPaymentId # NULL =>
            /\ t.type = "PAYMENT_RECEIVED"
            /\ t.amount = payments[t.relatedPaymentId].amount
            /\ t.customerId = payments[t.relatedPaymentId].customerId
       /\ t.relatedDueSettlementId # NULL =>
            LET d == dueSettlements[t.relatedDueSettlementId]
            IN /\ t.type = "DUE_SETTLED"
               /\ t.amount = d.settledAmount
               /\ t.customerId = d.customerId
       /\ t.relatedActionId # NULL =>
            LET a == boxActivations[t.relatedActionId]
            IN /\ t.type \in {"BOX_ACTIVATED", "BOX_SUSPENDED",
                              "BOX_DEACTIVATED", "BOX_REACTIVATED"}
               /\ t.type = "BOX_" \o a.actionType
               /\ t.amount = 0
               /\ t.customerId = a.customerId

\* a bill, a settlement whose remainingAmount differs from its settledAmount,
\* and a box action, each with its ledger entry
C11_Witness ==
  /\ \E i \in 1..Len(dueSettlements) :
       /\ dueSettlements[i].settledAmount # dueSettlements[i].remainingAmount
       /\ Referencing("relatedDueSettlementId", i) # {}
  /\ \E i \in 1..Len(boxActivations) : Referencing("relatedActionId", i) # {}
  /\ \E i \in 1..Len(bills) : Referencing("relatedBillId", i) # {}

\* C12: createPayment called without a billId changes no Bill record,
\* persists the Payment with status COMPLETED and no bill reference, and
\* emits exactly one PAYMENT_RECEIVED Transaction linked to that payment.
C12_UnattachedPayment ==
  [][(/\ Len(payments') = Len(payments) + 1
      /\ payments'[Len(payments')].billId = NULL) =>
       LET payment == payments'[Len(payments')]
           transaction == transactions'[Len(transactions')]
       IN /\ bills' = bills
          /\ payment.status = "COMPLETED"
          /\ Len(transactions') = Len(transactions) + 1
          /\ SubSeq(transactions', 1, Len(transactions)) = transactions
          /\ transaction.type = "PAYMENT_RECEIVED"
          /\ transaction.relatedPaymentId = payment.id
          /\ transaction.relatedBillId = NULL]_vars

\* a payment without a bill was committed while its customer had an open
\* bill, which is still as it was created
C12_Witness ==
  /\ lastOp.op = "createPayment"
  /\ Ok(lastOp)
  /\ lastOp.data.billId = NULL
  /\ \E i \in 1..Len(bills) :
       /\ bills[i].customerId = lastOp.data.customerId
       /\ bills[i].status = "PENDING"
       /\ bills[i].paidAmount = NULL

\* the box actions recorded for a customer, oldest first
ActionsOf(c) == SelectSeq(boxActivations, LAMBDA a : a.customerId = c)

\* C13: createBoxActivation sets Customer.boxStatus as a function of
\* actionType alone (ACTIVATED and REACTIVATED give ACTIVE, SUSPENDED gives
\* SUSPENDED, DEACTIVATED gives INACTIVE) from any current boxStatus, and
\* never rejects an action because of the current status.
C13_BoxStatusByActionOnly ==
  LET table == [ACTIVATED |-> "ACTIVE", REACTIVATED |-> "ACTIVE",
                SUSPENDED |-> "SUSPENDED", DEACTIVATED |-> "INACTIVE"]
  IN /\ \A c \in Customers :
          ActionsOf(c) # <<>> =>
            customers[c].boxStatus = table[Last(ActionsOf(c)).actionType]
     /\ \A c \in Customers, a \in ActionTypes,
           tn \in generateTransactionNumber :
          LET ctx == createBoxActivation(
                       Db, [customerId |-> c, actionType |-> a], tn, 0)
          IN <<ctx.err, ctx.db.customers[c].boxStatus>> = <<"none", table[a]>>

\* a customer was activated, suspended and reactivated: actions accepted
\* from the statuses INACTIVE, ACTIVE and SUSPENDED
C13_Witness ==
  \E c \in Customers :
    /\ Len(ActionsOf(c)) = 3
    /\ ActionsOf(c)[1].actionType = "ACTIVATED"
    /\ ActionsOf(c)[2].actionType = "SUSPENDED"
    /\ ActionsOf(c)[3].actionType = "REACTIVATED"
    /\ customers[c].boxStatus = "ACTIVE"

MissingBillId == Len(bills) + 1

\* C16: createPayment with a billId that resolves to no bill fails with
\* NotFound and persists neither the Payment nor a Transaction.
C16_PaymentForMissingBillIsNotFound ==
  \A c \in Customers, amount \in PayAmounts,
     pn \in generatePaymentNumber, tn \in generateTransactionNumber :
    LET ctx == createPayment(Db, [customerId |-> c, amount |-> amount,
                                  billId |-> MissingBillId], pn, tn, 0)
    IN /\ IsNotFound(ctx.err)
       /\ prismaTransaction(Db, ctx) = Db

\* C17: createDueSettlement with a billId that resolves to no bill fails
\* with a not-found error and persists no DueSettlement, no Transaction and
\* no bill change.
C17_SettlementForMissingBillIsNotFound ==
  /\ \A c \in CustomerIds, settledAmount \in PayAmounts,
        tn \in generateTransactionNumber, faultAt \in Faults :
       LET ctx == createDueSettlement(
                    Db, [customerId |-> c, billId |-> MissingBillId,
                         settledAmount |-> settledAmount], tn, faultAt)
       IN ctx = [db |-> Db, err |-> "Bill not found", writes |-> 0]
  /\ IsNotFound("Bill not found")
  /\ prismaTransaction(Db, [db |-> Db, err |-> "Bill not found",
                            writes |-> 0]) = Db
  /\ lastOp.err = "Bill not found" => lastOp.op = "createDueSettlement"

\* a settlement for a missing bill was refused while the store held a bill
\* and a settlement
C17_Witness ==
  /\ lastOp.op = "createDueSettlement"
  /\ lastOp.err = "Bill not found"
  /\ Len(bills) >= 1
  /\ Len(dueSettlements) >= 1

\* C18: createBill with a customerId that resolves to no customer fails
\* with NotFound and persists neither the Bill nor its BILL_GENERATED
\* Transaction.
C18_BillForMissingCustomerIsNotFound ==
  \A c \in CustomerIds \ Customers, planId \in PlanSelections,
     amount \in BillAmounts, billDate \in BillDates, dueDate \in DueDates,
     bn \in generateBillNumber, tn \in generateTransactionNumber :
    LET ctx == createBill(Db, [customerId |-> c, planId |-> planId,
                               amount |-> amount, billDate |-> billDate,
                               dueDate |-> dueDate], bn, tn, 0)
    IN /\ IsNotFound(ctx.err)
       /\ prismaTransaction(Db, ctx) = Db

\* C19: once written, a Transaction is never modified or deleted by any of
\* the four mutating operations: the ledger after any step contains every
\* entry that existed before it, with identical field values.
C19_LedgerAppendOnly ==
  [][/\ Len(transactions') >= Len(transactions)
     /\ SubSeq(transactions', 1, Len(transactions)) = transactions]_vars

\* a box action (which updates its BoxActivation after the ledger insert)
\* committed after a settlement that rewrote its bill
C19_Witness ==
  /\ lastOp.op = "createBoxActivation"
  /\ Ok(lastOp)
  /\ Len(transactions) = 3
  /\ \E i \in 1..Len(bills) : bills[i].status = "SETTLED"

\* the monetary fields other than DueSettlement.remainingAmount are not
\* negative (paidAmount is NULL until the first payment)
MoneyNonNegative ==
  /\ \A i \in 1..Len(bills) :
       /\ bills[i].amount >= 0
       /\ bills[i].paidAmount # NULL => bills[i].paidAmount >= 0
  /\ \A i \in 1..Len(payments) : payments[i].amount >= 0
  /\ \A i \in 1..Len(dueSettlements) :
       /\ dueSettlements[i].originalAmount >= 0
       /\ dueSettlements[i].settledAmount >= 0
  /\ \A i \in 1..Len(transactions) : transactions[i].amount >= 0

\* C20 as stated: given positive input amounts, every monetary field stored
\* (Bill.amount, Bill.paidAmount, Payment.amount, DueSettlement
\* originalAmount, settledAmount and remainingAmount, Transaction.amount) is
\* non-negative in every reachable state.
C20_AllMoneyNonNegative ==
  /\ MoneyNonNegative
  /\ \A i \in 1..Len(dueSettlements) : dueSettlements[i].remainingAmount >= 0

\* C20 as amended: given positive input amounts, every monetary field
\* stored except DueSettlement.remainingAmount is non-negative in every
\* reachable state; remainingAmount is negative exactly when the settlements
\* of the bill up to and including this one exceed bill.amount.
C20_MoneyNonNegativeExceptRemaining ==
  /\ MoneyNonNegative
  /\ \A i \in 1..Len(dueSettlements) :
       dueSettlements[i].remainingAmount < 0
         <=> PriorSettled(i) + dueSettlements[i].settledAmount
               > dueSettlements[i].originalAmount

\* a bill was settled twice for more than its amount in total
C20_Witness ==
  \E i \in 1..Len(dueSettlements) :
    /\ PriorSettled(i) > 0
    /\ dueSettlements[i].remainingAmount < 0
    /\ dueSettlements[i].status = "SETTLED"

\* C21: createPayment sets bill.paidAt only on the payment that first moves
\* the bill to PAID: a later payment against a bill that is already PAID
\* leaves paidAt unchanged, and a payment that leaves the bill PARTIAL
\* leaves paidAt unchanged.
C21_PaidAtOnlyOnFirstPaid ==
  [][(/\ Len(payments') = Len(payments) + 1
      /\ payments'[Len(payments')].billId # NULL) =>
       LET b == payments'[Len(payments')].billId
       IN (bills[b].status = "PAID" \/ bills'[b].status = "PARTIAL")
            => bills'[b].paidAt = bills[b].paidAt]_vars

\* the settledAmount of the DueSettlement records of the bill, summed
SettledOn(billId) ==
  SumSeq(WhereBillId(dueSettlements, billId), "settledAmount")

\* C22: two createPayment units against the same bill that do not see each
\* other's uncommitted Payment rows can both commit and leave the bill with
\* a paidAmount that differs from the sum of the committed payments and
\* with status PARTIAL although those payments total at least bill.amount.
\* As a property of every step: a committing payment leaves its bill
\* PARTIAL with committed payments of at least bill.amount only when a
\* payment against the bill was committed after its unit began.
C22_LostPaymentNeedsStaleView ==
  [][\A r \in Requests :
       (/\ inFlight[r].op = "createPayment"
        /\ inFlight'[r] = Idle
        /\ Len(payments') = Len(payments) + 1) =>
         LET b == inFlight[r].data.billId
         IN (/\ bills'[b].status = "PARTIAL"
             /\ SumSeq(WhereBillId(payments', b), "amount")
                  >= bills'[b].amount)
              => WhereBillId(inFlight[r].view.payments, b)
                   # WhereBillId(payments, b)]_vars

\* both payments are committed, they total at least the bill's amount, the
\* bill is PARTIAL and its paidAmount is not their sum
C22_Witness ==
  \E b \in 1..Len(bills) :
    /\ Len(WhereBillId(payments, b)) = 2
    /\ PaidOn(b) >= bills[b].amount
    /\ bills[b].status = "PARTIAL"
    /\ bills[b].paidAmount # PaidOn(b)
    /\ \A r \in Requests : inFlight[r] = Idle

\* C23: two createDueSettlement units against the same bill that do not see
\* each other's uncommitted DueSettlement rows can both commit with status
\* PARTIAL and leave bill.status not SETTLED although the committed
\* settledAmounts sum to at least bill.amount.  As a property of every
\* step: a committing settlement leaves its bill not SETTLED with committed
\* settlements of at least bill.amount only when a settlement against the
\* bill was committed after its unit began.
C23_LostSettlementNeedsStaleView ==
  [][\A r \in Requests :
       (/\ inFlight[r].op = "createDueSettlement"
        /\ inFlight'[r] = Idle
        /\ Len(dueSettlements') = Len(dueSettlements) + 1) =>
         LET b == inFlight[r].data.billId
         IN (/\ bills'[b].status # "SETTLED"
             /\ SumSeq(WhereBillId(dueSettlements', b), "settledAmount")
                  >= bills'[b].amount)
              => WhereBillId(inFlight[r].view.dueSettlements, b)
                   # WhereBillId(dueSettlements, b)]_vars

\* both settlements are committed as PARTIAL, they total at least the
\* bill's amount, and the bill is not SETTLED
C23_Witness ==
  \E b \in 1..Len(bills) :
    /\ Len(WhereBillId(dueSettlements, b)) = 2
    /\ \A i \in 1..Len(dueSettlements) : dueSettlements[i].status = "PARTIAL"
    /\ SettledOn(b) >= bills[b].amount
    /\ bills[b].status # "SETTLED"
    /\ \A r \in Requests : inFlight[r] = Idle

----------------------------------------------------------------------------
(* generateBillNumber step by step.  A call builds a candidate from the    *)
(* last eight digits of the clock and a random suffix, looks it up in the  *)
(* bills table, and on a hit calls itself again.  The generator reads      *)
(* only the last eight digits of Date.now(), which repeat; here the clock  *)
(* is kept modulo TimestampSpan.                                           *)

\* the number of distinct values of Date.now().toString().slice(-8)
TimestampSpan == MaxTime + 1

\* createBill of request r calls generateBillNumber
CallGenerateBillNumber(r) ==
  /\ inFlight[r] = Idle
  /\ inFlight' = [inFlight EXCEPT ![r] =
       [op |-> "generateBillNumber", billNumber |-> <<>>]]
  /\ UNCHANGED <<customers, bills, payments, dueSettlements, boxActivations,
                 transactions, now, lastOp>>

\* const billNumber = `${prefix}${timestamp}${random}`
BuildBillNumber(r) ==
  /\ inFlight[r].op = "generateBillNumber"
  /\ inFlight[r].billNumber = <<>>
  /\ \E billNumber \in Candidates :
       inFlight' = [inFlight EXCEPT ![r].billNumber = billNumber]
  /\ UNCHANGED <<customers, bills, payments, dueSettlements, boxActivations,
                 transactions, now, lastOp>>

\* the existence check: on a hit the generator calls itself, which builds a
\* new candidate; otherwise the candidate is returned to createBill
CheckBillNumber(r) ==
  /\ inFlight[r].op = "generateBillNumber"
  /\ inFlight[r].billNumber # <<>>
  /\ inFlight' = [inFlight EXCEPT ![r] =
       IF Taken(bills, "billNumber", inFlight[r].billNumber)
         THEN [op |-> "generateBillNumber", billNumber |-> <<>>]
         ELSE [op |-> "createBill", number |-> inFlight[r].billNumber]]
  /\ UNCHANGED <<customers, bills, payments, dueSettlements, boxActivations,
                 transactions, now, lastOp>>

\* createBill of request r goes on with the number it was given and commits
\* or rolls back
CommitGeneratedBill(r) ==
  /\ inFlight[r].op = "createBill"
  /\ Len(transactions) < MaxTransactions
  /\ \E customerId \in ConcurrentCustomers, planId \in PlanSelections,
        amount \in BillAmounts, billDate \in BillDates,
        dueDate \in DueDates,
        transactionNumber \in generateTransactionNumber :
       LET data == [customerId |-> customerId, planId |-> planId,
                    amount |-> amount, billDate |-> billDate,
                    dueDate |-> dueDate]
       IN Finish("createBill", data,
                 createBill(Db, data, inFlight[r].number, transactionNumber,
                            0),
                 Len(bills) + 1)
  /\ inFlight' = [inFlight EXCEPT ![r] = Idle]

\* a millisecond passes; the last eight digits of the clock wrap around
WrappingTick ==
  /\ now' = (now + 1) % TimestampSpan
  /\ UNCHANGED <<customers, bills, payments, dueSettlements, boxActivations,
                 transactions, lastOp, inFlight>>

GeneratorNext ==
  \/ \E r \in Requests : CallGenerateBillNumber(r)
  \/ \E r \in Requests : BuildBillNumber(r)
  \/ \E r \in Requests : CheckBillNumber(r)
  \/ \E r \in Requests : CommitGeneratedBill(r)
  \/ WrappingTick

\* the clock never stops and a generator that can take a step takes it
SpecGenerator ==
  /\ Init
  /\ [][GeneratorNext]_vars
  /\ WF_vars(WrappingTick)
  /\ \A r \in Requests :
       WF_vars(BuildBillNumber(r)) /\ WF_vars(CheckBillNumber(r))

\* C24: every call to a number generator terminates: it returns a number
\* absent from its table when checked, or gives up after a bounded number
\* of regenerations and surfaces a Conflict.  The generator has no give-up
\* exit, so termination is leaving the call with a number.
C24_GeneratorCallTerminates ==
  \A r \in Requests :
    (inFlight[r].op = "generateBillNumber")
      ~> (inFlight[r].op # "generateBillNumber")

----------------------------------------------------------------------------
\* C25: after any sequence of createBill, createPayment and
\* createDueSettlement every bill's status is one of PENDING, PARTIAL, PAID,
\* SETTLED, and a bill is PENDING only if no payment and no fully-settling
\* due settlement has been applied to it.
C25_PendingMeansUntouched ==
  \A b \in 1..Len(bills) :
    /\ bills[b].status \in {"PENDING", "PARTIAL", "PAID", "SETTLED"}
    /\ bills[b].status = "PENDING" =>
         /\ WhereBillId(payments, b) = <<>>
         /\ \A i \in 1..Len(dueSettlements) :
              dueSettlements[i].billId = b =>
                /\ dueSettlements[i].status # "SETTLED"
                /\ dueSettlements[i].remainingAmount > 0

\* a bill that stays PENDING under a partial settlement, next to the record
\* of the settlement that did not settle it
C25_Witness ==
  \E b \in 1..Len(bills) :
    /\ bills[b].status = "PENDING"
    /\ WhereBillId(dueSettlements, b) # <<>>
    /\ lastOp.op = "createDueSettlement"
    /\ Ok(lastOp)

\* C26: once the operation that created it has committed, a Payment,
\* DueSettlement or BoxActivation record is never modified by a later
\* operation.
C26_RecordsImmutable ==
  [][/\ Len(payments') >= Len(payments)
     /\ SubSeq(payments', 1, Len(payments)) = payments
     /\ Len(dueSettlements') >= Len(dueSettlements)
     /\ SubSeq(dueSettlements', 1, Len(dueSettlements)) = dueSettlements
     /\ Len(boxActivations') >= Len(boxActivations)
     /\ SubSeq(boxActivations', 1, Len(boxActivations)) = boxActivations]_vars

\* a later settlement has committed against the bill of an earlier payment
C26_Witness ==
  /\ lastOp.op = "createDueSettlement"
  /\ Ok(lastOp)
  /\ \E i \in 1..Len(payments) : payments[i].billId = lastOp.data.billId

\* C27: once a bill's status is SETTLED no later createPayment against the
\* bill changes its status: SETTLED is not overwritten by PARTIAL or PAID.
C27_SettledStaysSettled ==
  [][Len(payments') = Len(payments) + 1 =>
       \A b \in 1..Len(bills) :
         bills[b].status = "SETTLED" => bills'[b].status = "SETTLED"]_vars

\* an ACTIVATED action has been recorded for customer c
EverActivated(c) ==
  \E i \in 1..Len(boxActivations) :
    /\ boxActivations[i].customerId = c
    /\ boxActivations[i].actionType = "ACTIVATED"

\* C28: in every state reachable by createBoxActivation from a customer
\* with boxStatus INACTIVE and no boxActivatedAt, a customer whose boxStatus
\* is ACTIVE has boxActivatedAt set.
C28_ActiveHasActivatedAt ==
  \A c \in Customers :
    customers[c].boxStatus = "ACTIVE" => customers[c].boxActivatedAt # NULL

\* C28 as the code has it: boxActivatedAt is set exactly for the customers
\* with a recorded ACTIVATED action, so an ACTIVE customer has it set when it
\* was ever ACTIVATED and lacks it when it became ACTIVE by REACTIVATED alone.
C28_ActivatedAtIffEverActivated ==
  \A c \in Customers :
    customers[c].boxActivatedAt # NULL <=> EverActivated(c)

\* two ACTIVE customers, one ACTIVATED and stamped, one only REACTIVATED and
\* without boxActivatedAt
C28_Witness ==
  \E c, d \in Customers :
    /\ customers[c].boxStatus = "ACTIVE"
    /\ customers[d].boxStatus = "ACTIVE"
    /\ EverActivated(c)
    /\ customers[c].boxActivatedAt # NULL
    /\ ~EverActivated(d)
    /\ customers[d].boxActivatedAt = NULL

\* C29: every Payment that references a bill, and every DueSettlement, has
\* the customerId of the bill it references.
C29_SameCustomerAsBill ==
  /\ \A i \in 1..Len(payments) :
       payments[i].billId # NULL =>
         payments[i].customerId = bills[payments[i].billId].customerId
  /\ \A i \in 1..Len(dueSettlements) :
       dueSettlements[i].customerId
         = bills[dueSettlements[i].billId].customerId

\* C30: Bill.amount never changes after the bill is created: payments and
\* due settlements only change status, paidAmount and paidAt, so every
\* DueSettlement of one bill stores the same originalAmount.
C30_BillAmountFixed ==
  [][/\ \A b \in 1..Len(bills) :
          /\ bills'[b].amount = bills[b].amount
          /\ \A f \in DOMAIN bills[b] \ {"status", "paidAmount", "paidAt"} :
               bills'[b][f] = bills[b][f]
     /\ \A i, j \in 1..Len(dueSettlements') :
          dueSettlements'[i].billId = dueSettlements'[j].billId =>
            dueSettlements'[i].originalAmount
              = dueSettlements'[j].originalAmount]_vars

\* a bill settled by two settlements in turn, its amount the one
\* both settlements recorded
C30_Witness ==
  \E b \in 1..Len(bills) :
    /\ Len(WhereBillId(dueSettlements, b)) = 2
    /\ bills[b].status = "SETTLED"
    /\ \A i \in 1..Len(dueSettlements) :
         dueSettlements[i].originalAmount = bills[b].amount

====
